---- MODULE Spec2Model ----
\* Model of the weather station firmware's interrupt-driven pulse counting and
\* dual-window flush scheduler (src/main.cc): the two RateLimitedCounters fed
\* by the GPIO interrupt callback, and the loop of track_wind_and_rain that
\* drains them under portDISABLE_INTERRUPTS and publishes the derived rates.
\*
\* Time is the monotonic clock of time_us_64()/get_absolute_time(), counted in
\* an abstract unit: the four durations below keep the source's names and
\* order (anemometer debounce < wind period < rain debounce < rain period) but
\* are scaled so that several windows fit in the explored horizon.
EXTENDS Integers, Sequences, FiniteSets, TLC

\* ---------------------------------------------------------------- bounds
\* Horizon of the clock (the Tick guard).
MaxClock == 8

\* Scaled durations (main.cc:34, 35, 143, 154).
kRainGaugeFlushUs == 5

kAnemometerFlushUs == 2

kAnemometerUpdateUs == 1

kRainGaugeUpdateUs == 3

\* Largest debounce interval drawn for a stand-alone counter (SpecCounter).
MaxUpdatePeriod == 3

\* Most edges delivered to a stand-alone counter between two drains.
MaxEdges == 3

\* Largest tick count handed to the rate computation.
MaxTicks == 10

\* ------------------------------------------------------- program constants
kAnemometerPin == 14

kRainGaugePin == 15

\* A GPIO that has no counter (the wind vane's ADC pin, main.cc:95).
kOtherPin == 26

kRainReportPeriodSecs == 10 * 60

kWindReportPeriodSecs == 5

\* (1 + 3 * std::min({kWindReportPeriodSecs, kRainReportPeriodSecs})) * 1000
kWatchdogMs ==
  (1 + 3 * (IF kWindReportPeriodSecs < kRainReportPeriodSecs
              THEN kWindReportPeriodSecs
              ELSE kRainReportPeriodSecs)) * 1000

\* std::numeric_limits<int>::max()
IntMax == 2147483647

\* Largest reading of the 12-bit ADC behind adc_read().
AdcMax == 4095

CounterPins == {kAnemometerPin, kRainGaugePin}

Pins == CounterPins \cup {kOtherPin}

\* An empty std::optional (counts and times are never negative).
NullOpt == -1

\* lwIP results of MqttClient::Publish.
Errs == {"ERR_OK", "ERR_FAIL"}

NoPub == [topic |-> "none", ticks |-> 0, elapsed_us |-> 0]

VARIABLES
  clock,                  \* time_us_64() / get_absolute_time()
  irq_enabled,            \* IO_IRQ_BANK0 enabled and callback installed
  interrupts,             \* TRUE unless inside portDISABLE/ENABLE_INTERRUPTS
  counter,                \* pin -> RateLimitedCounter (the two static instances)
  pc,                     \* position of the wind_and_rain task
  next_rain_gauge_flush,
  next_anemometer_flush,
  min_flush_time,
  now,
  rain_gauge_flush,       \* std::optional<int>
  rain_gauge_end_time,    \* std::optional<absolute_time_t>
  anemometer_flush,
  anemometer_end_time,
  exch,                   \* value read by std::exchange before it stores
  pub,                    \* arguments of the SensorPublish call in progress
  last_err,               \* result of the last client.Publish (what is printed)
  accepted,               \* history: pin -> edges counted by Inc so far
  flushed,                \* history: pin -> sum of the values Flush returned
  hist,                   \* history of a stand-alone counter (SpecCounter)
  published,              \* history: topics handed to SensorPublish this wake
  disabled_at,            \* history: clock at portDISABLE_INTERRUPTS, in the section
  main_pc,                \* position of main_task (and of wind_direction_task)
  level,                  \* wind_direction_task: the last adc_read()
  direction,              \* wind_direction_task: the last LevelToDirection result
  watchdog_ms,            \* timeout the watchdog was enabled with, if it was
  rate_ticks,             \* Rate Calculator input: flushed tick count
  rate_late_us,           \* Rate Calculator input: now - *end_time, microseconds
  rain_inches_per_hour,   \* published std::to_string(rain_inches_per_hour)
  wind_mph                \* published std::to_string(wind_mph)

vars == <<clock, irq_enabled, interrupts, counter, pc, next_rain_gauge_flush,
          next_anemometer_flush, min_flush_time, now, rain_gauge_flush,
          rain_gauge_end_time, anemometer_flush, anemometer_end_time, exch,
          pub, last_err, accepted, flushed, hist, published, disabled_at,
          main_pc, level, direction, watchdog_ms, rate_ticks, rate_late_us,
          rain_inches_per_hour, wind_mph>>

wakeHist == <<published, disabled_at>>

mainVars == <<main_pc, level, direction, watchdog_ms>>

rateVars == <<rate_ticks, rate_late_us, rain_inches_per_hour, wind_mph>>

schedulerVars == <<clock, irq_enabled, interrupts, counter, pc,
                   next_rain_gauge_flush, next_anemometer_flush,
                   min_flush_time, now, rain_gauge_flush, rain_gauge_end_time,
                   anemometer_flush, anemometer_end_time, exch, pub, accepted,
                   flushed, hist, published, disabled_at>>

taskLocals == <<rain_gauge_flush, rain_gauge_end_time, anemometer_flush,
                anemometer_end_time, exch>>

deadlines == <<next_rain_gauge_flush, next_anemometer_flush>>

\* ------------------------------------------------------ RateLimitedCounter
RateLimitedCounter(period) ==
  [update_period |-> period, next_update |-> 0, count |-> 0]

\* Mutant: the debounce interval is applied a second time in the comparison.
IncLate(c, timestamp) ==
  IF timestamp > c.next_update + c.update_period
    THEN [c EXCEPT !.count = @ + 1,
                   !.next_update = timestamp + c.update_period]
    ELSE c

\* Mutant: an edge exactly at next_update is accepted.
IncAtBoundary(c, timestamp) ==
  IF timestamp >= c.next_update
    THEN [c EXCEPT !.count = @ + 1,
                   !.next_update = timestamp + c.update_period]
    ELSE c

Inc(c, timestamp) ==
  IF timestamp > c.next_update
    THEN [c EXCEPT !.count = @ + 1,
                   !.next_update = timestamp + c.update_period]
    ELSE c

\* Flush is std::exchange(count, 0): a read of count, then a store of 0.
FlushRead(c) == c.count

\* Mutant: the drain also clears the debounce window.
FlushStoreClearsWindow(c) == [c EXCEPT !.count = 0, !.next_update = 0]

FlushStore(c) == [c EXCEPT !.count = 0]

\* ------------------------------------------------------------ pico time
absolute_time_diff_us(from, to) == to - from

delayed_by_us(t, us) == t + us

\* uint64_t period + int64_t difference, converted to uint64_t: the sum modulo
\* 2^64.  A negative value v stands for the wrapped-around 2^64 + v.
ElapsedUs(period, now_, end_time) ==
  period + absolute_time_diff_us(now_, end_time)

\* No rate has been published.
NoRate == [kind |-> "none", int |-> 0, micro |-> 0]

\* The Rate Calculator has not been applied (Spec, SpecCounter, SpecMain).
RateIdle ==
  /\ rate_ticks = 0
  /\ rate_late_us = 0
  /\ rain_inches_per_hour = NoRate
  /\ wind_mph = NoRate

\* main_task has created the wind_and_rain task and entered
\* wind_direction_task; its steps are those of SpecMain.
MainNotModelled ==
  /\ main_pc = "wind_direction_task"
  /\ level = 0
  /\ direction = ""
  /\ watchdog_ms = NullOpt

\* ---------------------------------------------------------------- Init
NoHist == [p \in CounterPins |-> [n |-> 0, last |-> 0, ge |-> TRUE, gt |-> TRUE]]

Init ==
  /\ clock = 1
  /\ irq_enabled = FALSE
  /\ interrupts = TRUE
  /\ counter = [p \in CounterPins |->
                  IF p = kAnemometerPin
                    THEN RateLimitedCounter(kAnemometerUpdateUs)
                    ELSE RateLimitedCounter(kRainGaugeUpdateUs)]
  /\ pc = "setup"
  /\ next_rain_gauge_flush = 0
  /\ next_anemometer_flush = 0
  /\ min_flush_time = 0
  /\ now = 0
  /\ rain_gauge_flush = NullOpt
  /\ rain_gauge_end_time = NullOpt
  /\ anemometer_flush = NullOpt
  /\ anemometer_end_time = NullOpt
  /\ exch = NullOpt
  /\ pub = NoPub
  /\ last_err = "none"
  /\ accepted = [p \in CounterPins |-> 0]
  /\ flushed = [p \in CounterPins |-> 0]
  /\ hist = NoHist
  /\ published = <<>>
  /\ disabled_at = NullOpt
  /\ MainNotModelled
  /\ RateIdle

\* ------------------------------------------------------------ the clock
Tick ==
  /\ clock < MaxClock
  /\ clock' = clock + 1
  /\ UNCHANGED <<irq_enabled, interrupts, counter, pc, deadlines,
                 min_flush_time, now, taskLocals, pub, last_err, accepted,
                 flushed, hist,
                 wakeHist,
                 mainVars, rateVars>>

\* ------------------------------------------------- the interrupt callback
\* The GPIO callback runs to completion between two steps of the task, and
\* only while the core's interrupts are enabled.
\* Mutant: the anemometer case lacks its break and falls into the rain case.
GpioCallbackFallsThrough(gpio) ==
  /\ irq_enabled
  /\ interrupts
  /\ LET timestamp == clock
         afterAnemometer ==
           IF gpio = kAnemometerPin
             THEN [counter EXCEPT ![kAnemometerPin] = Inc(@, timestamp)]
             ELSE counter
         afterRainGauge ==
           IF gpio \in CounterPins
             THEN [afterAnemometer EXCEPT ![kRainGaugePin] = Inc(@, timestamp)]
             ELSE afterAnemometer
     IN /\ counter' = afterRainGauge
        /\ accepted' = [p \in CounterPins |->
                          accepted[p] + (afterRainGauge[p].count - counter[p].count)]
  /\ UNCHANGED <<clock, irq_enabled, interrupts, pc, deadlines,
                 min_flush_time, now, taskLocals, pub, last_err, flushed, hist,
                 wakeHist,
                 mainVars, rateVars>>

GpioCallback(gpio) ==
  /\ irq_enabled
  /\ interrupts
  /\ LET timestamp == clock IN
       IF gpio \in CounterPins
         THEN /\ counter' = [counter EXCEPT ![gpio] = Inc(@, timestamp)]
              /\ accepted' = [accepted EXCEPT ![gpio] =
                                @ + (counter'[gpio].count - counter[gpio].count)]
         ELSE UNCHANGED <<counter, accepted,
                 wakeHist,
                 mainVars, rateVars>>
  /\ UNCHANGED <<clock, irq_enabled, interrupts, pc, deadlines,
                 min_flush_time, now, taskLocals, pub, last_err, flushed, hist,
                 wakeHist,
                 mainVars, rateVars>>

\* --------------------------------------------------- track_wind_and_rain
Setup ==
  /\ pc = "setup"
  /\ irq_enabled' = TRUE
  /\ next_rain_gauge_flush' = delayed_by_us(clock, kRainGaugeFlushUs)
  /\ next_anemometer_flush' = delayed_by_us(clock, kAnemometerFlushUs)
  /\ pc' = "min_flush"
  /\ UNCHANGED <<clock, interrupts, counter, min_flush_time, now, taskLocals,
                 pub, last_err, accepted, flushed, hist,
                 wakeHist,
                 mainVars, rateVars>>

MinFlushTime ==
  /\ pc = "min_flush"
  /\ min_flush_time' =
       IF absolute_time_diff_us(next_rain_gauge_flush, next_anemometer_flush) > 0
         THEN next_rain_gauge_flush
         ELSE next_anemometer_flush
  /\ pc' = "sleep_until"
  /\ UNCHANGED <<clock, irq_enabled, interrupts, counter, deadlines, now,
                 taskLocals, pub, last_err, accepted, flushed, hist,
                 wakeHist,
                 mainVars, rateVars>>

\* sleep_until(t) returns at or after t, never before.
SleepUntil ==
  /\ pc = "sleep_until"
  /\ clock >= min_flush_time
  /\ pc' = "get_now"
  /\ UNCHANGED <<clock, irq_enabled, interrupts, counter, deadlines,
                 min_flush_time, now, taskLocals, pub, last_err, accepted,
                 flushed, hist,
                 wakeHist,
                 mainVars, rateVars>>

GetNow ==
  /\ pc = "get_now"
  /\ now' = clock
  /\ rain_gauge_flush' = NullOpt
  /\ rain_gauge_end_time' = NullOpt
  /\ anemometer_flush' = NullOpt
  /\ anemometer_end_time' = NullOpt
  /\ pc' = "disable"
  /\ published' = <<>>
  /\ UNCHANGED <<clock, irq_enabled, interrupts, counter, deadlines,
                 min_flush_time, exch, pub, last_err, accepted, flushed, hist,
                 disabled_at,
                 mainVars, rateVars>>

\* Mutant: the drain is entered without disabling interrupts.
DisableInterruptsNoop ==
  /\ pc = "disable"
  /\ pc' = "rain_check"
  /\ disabled_at' = clock
  /\ UNCHANGED <<clock, irq_enabled, interrupts, counter, deadlines,
                 min_flush_time, now, taskLocals, pub, last_err, accepted,
                 flushed, hist,
                 published,
                 mainVars, rateVars>>

DisableInterrupts ==
  /\ pc = "disable"
  /\ interrupts' = FALSE
  /\ pc' = "rain_check"
  /\ disabled_at' = clock
  /\ UNCHANGED <<clock, irq_enabled, counter, deadlines, min_flush_time, now,
                 taskLocals, pub, last_err, accepted, flushed, hist,
                 published,
                 mainVars, rateVars>>

\* Mutant: the rain gauge is drained without testing its deadline.
RainCheckAlways ==
  /\ pc = "rain_check"
  /\ exch' = FlushRead(counter[kRainGaugePin])
  /\ pc' = "rain_flush"
  /\ UNCHANGED <<clock, irq_enabled, interrupts, counter, deadlines,
                 min_flush_time, now, rain_gauge_flush, rain_gauge_end_time,
                 anemometer_flush, anemometer_end_time, pub, last_err,
                 accepted, flushed, hist,
                 wakeHist,
                 mainVars, rateVars>>

RainCheck ==
  /\ pc = "rain_check"
  /\ IF absolute_time_diff_us(now, next_rain_gauge_flush) < 0
       THEN /\ exch' = FlushRead(counter[kRainGaugePin])
            /\ pc' = "rain_flush"
       ELSE /\ exch' = exch
            /\ pc' = "anem_check"
  /\ UNCHANGED <<clock, irq_enabled, interrupts, counter, deadlines,
                 min_flush_time, now, rain_gauge_flush, rain_gauge_end_time,
                 anemometer_flush, anemometer_end_time, pub, last_err,
                 accepted, flushed, hist,
                 wakeHist,
                 mainVars, rateVars>>

RainFlush ==
  /\ pc = "rain_flush"
  /\ counter' = [counter EXCEPT ![kRainGaugePin] = FlushStore(@)]
  /\ rain_gauge_flush' = exch
  /\ flushed' = [flushed EXCEPT ![kRainGaugePin] = @ + exch]
  /\ exch' = NullOpt
  /\ pc' = "rain_resched"
  /\ UNCHANGED <<clock, irq_enabled, interrupts, deadlines, min_flush_time,
                 now, rain_gauge_end_time, anemometer_flush,
                 anemometer_end_time, pub, last_err, accepted, hist,
                 wakeHist,
                 mainVars, rateVars>>

\* Mutant: interrupts are re-enabled before the anemometer is handled.
RainRescheduleEnablesEarly ==
  /\ pc = "rain_resched"
  /\ rain_gauge_end_time' = next_rain_gauge_flush
  /\ next_rain_gauge_flush' = delayed_by_us(now, kRainGaugeFlushUs)
  /\ interrupts' = TRUE
  /\ pc' = "anem_check"
  /\ UNCHANGED <<clock, irq_enabled, counter, next_anemometer_flush,
                 min_flush_time, now, rain_gauge_flush, anemometer_flush,
                 anemometer_end_time, exch, pub, last_err, accepted, flushed,
                 hist,
                 wakeHist,
                 mainVars, rateVars>>

RainReschedule ==
  /\ pc = "rain_resched"
  /\ rain_gauge_end_time' = next_rain_gauge_flush
  /\ next_rain_gauge_flush' = delayed_by_us(now, kRainGaugeFlushUs)
  /\ pc' = "anem_check"
  /\ UNCHANGED <<clock, irq_enabled, interrupts, counter,
                 next_anemometer_flush, min_flush_time, now, rain_gauge_flush,
                 anemometer_flush, anemometer_end_time, exch, pub, last_err,
                 accepted, flushed, hist,
                 wakeHist,
                 mainVars, rateVars>>

AnemometerCheck ==
  /\ pc = "anem_check"
  /\ IF absolute_time_diff_us(now, next_anemometer_flush) < 0
       THEN /\ exch' = FlushRead(counter[kAnemometerPin])
            /\ pc' = "anem_flush"
       ELSE /\ exch' = exch
            /\ pc' = "enable"
  /\ UNCHANGED <<clock, irq_enabled, interrupts, counter, deadlines,
                 min_flush_time, now, rain_gauge_flush, rain_gauge_end_time,
                 anemometer_flush, anemometer_end_time, pub, last_err,
                 accepted, flushed, hist,
                 wakeHist,
                 mainVars, rateVars>>

AnemometerFlush ==
  /\ pc = "anem_flush"
  /\ counter' = [counter EXCEPT ![kAnemometerPin] = FlushStore(@)]
  /\ anemometer_flush' = exch
  /\ flushed' = [flushed EXCEPT ![kAnemometerPin] = @ + exch]
  /\ exch' = NullOpt
  /\ pc' = "anem_resched"
  /\ UNCHANGED <<clock, irq_enabled, interrupts, deadlines, min_flush_time,
                 now, rain_gauge_flush, rain_gauge_end_time,
                 anemometer_end_time, pub, last_err, accepted, hist,
                 wakeHist,
                 mainVars, rateVars>>

\* Mutant: the new deadline is counted from the stale deadline, not from now.
AnemometerRescheduleFromDeadline ==
  /\ pc = "anem_resched"
  /\ anemometer_end_time' = next_anemometer_flush
  /\ next_anemometer_flush' =
       delayed_by_us(next_anemometer_flush, kAnemometerFlushUs)
  /\ pc' = "enable"
  /\ UNCHANGED <<clock, irq_enabled, interrupts, counter,
                 next_rain_gauge_flush, min_flush_time, now, rain_gauge_flush,
                 rain_gauge_end_time, anemometer_flush, exch, pub, last_err,
                 accepted, flushed, hist,
                 wakeHist,
                 mainVars, rateVars>>

AnemometerReschedule ==
  /\ pc = "anem_resched"
  /\ anemometer_end_time' = next_anemometer_flush
  /\ next_anemometer_flush' = delayed_by_us(now, kAnemometerFlushUs)
  /\ pc' = "enable"
  /\ UNCHANGED <<clock, irq_enabled, interrupts, counter,
                 next_rain_gauge_flush, min_flush_time, now, rain_gauge_flush,
                 rain_gauge_end_time, anemometer_flush, exch, pub, last_err,
                 accepted, flushed, hist,
                 wakeHist,
                 mainVars, rateVars>>

\* Mutant: interrupts stay disabled when the section is left.
EnableInterruptsMissing ==
  /\ pc = "enable"
  /\ pc' = "rain_report"
  /\ disabled_at' = NullOpt
  /\ UNCHANGED <<clock, irq_enabled, interrupts, counter, deadlines,
                 min_flush_time, now, taskLocals, pub, last_err, accepted,
                 flushed, hist,
                 published,
                 mainVars, rateVars>>

EnableInterrupts ==
  /\ pc = "enable"
  /\ interrupts' = TRUE
  /\ pc' = "rain_report"
  /\ disabled_at' = NullOpt
  /\ UNCHANGED <<clock, irq_enabled, counter, deadlines, min_flush_time, now,
                 taskLocals, pub, last_err, accepted, flushed, hist,
                 published,
                 mainVars, rateVars>>

RainReport ==
  /\ pc = "rain_report"
  /\ IF rain_gauge_flush # NullOpt
       THEN /\ pub' = [topic |-> "rain_topic",
                       ticks |-> rain_gauge_flush,
                       elapsed_us |-> ElapsedUs(kRainGaugeFlushUs, now,
                                                rain_gauge_end_time)]
            /\ pc' = "rain_publish"
       ELSE /\ pub' = pub
            /\ pc' = "anem_report"
  /\ UNCHANGED <<clock, irq_enabled, interrupts, counter, deadlines,
                 min_flush_time, now, taskLocals, last_err, accepted, flushed,
                 hist,
                 wakeHist,
                 mainVars, rateVars>>

\* Mutant: the wind report is guarded by the rain gauge's optional.
AnemometerReportTestsRain ==
  /\ pc = "anem_report"
  /\ IF rain_gauge_flush # NullOpt
       THEN /\ pub' = [topic |-> "wind_topic",
                       ticks |-> anemometer_flush,
                       elapsed_us |-> ElapsedUs(kAnemometerFlushUs, now,
                                                anemometer_end_time)]
            /\ pc' = "anem_publish"
       ELSE /\ pub' = pub
            /\ pc' = "min_flush"
  /\ UNCHANGED <<clock, irq_enabled, interrupts, counter, deadlines,
                 min_flush_time, now, taskLocals, last_err, accepted, flushed,
                 hist,
                 wakeHist,
                 mainVars, rateVars>>

AnemometerReport ==
  /\ pc = "anem_report"
  /\ IF anemometer_flush # NullOpt
       THEN /\ pub' = [topic |-> "wind_topic",
                       ticks |-> anemometer_flush,
                       elapsed_us |-> ElapsedUs(kAnemometerFlushUs, now,
                                                anemometer_end_time)]
            /\ pc' = "anem_publish"
       ELSE /\ pub' = pub
            /\ pc' = "min_flush"
  /\ UNCHANGED <<clock, irq_enabled, interrupts, counter, deadlines,
                 min_flush_time, now, taskLocals, last_err, accepted, flushed,
                 hist,
                 wakeHist,
                 mainVars, rateVars>>

\* Mutant: a failed publish puts the drained ticks back into their counter.
SensorPublishRestores(err) ==
  /\ pc \in {"rain_publish", "anem_publish"}
  /\ last_err' = err
  /\ pub' = NoPub
  /\ pc' = IF pc = "rain_publish" THEN "anem_report" ELSE "min_flush"
  /\ counter' =
       IF err = "ERR_OK" THEN counter
       ELSE LET p == IF pc = "rain_publish" THEN kRainGaugePin
                                            ELSE kAnemometerPin
            IN [counter EXCEPT ![p].count = @ + pub.ticks]
  /\ published' = Append(published, pub.topic)
  /\ UNCHANGED <<clock, irq_enabled, interrupts, deadlines, min_flush_time,
                 now, taskLocals, accepted, flushed, hist,
                 disabled_at,
                 mainVars, rateVars>>

\* SensorPublish: client.Publish returns err; a failure is only printed.
SensorPublish(err) ==
  /\ pc \in {"rain_publish", "anem_publish"}
  /\ last_err' = err
  /\ pub' = NoPub
  /\ pc' = IF pc = "rain_publish" THEN "anem_report" ELSE "min_flush"
  /\ published' = Append(published, pub.topic)
  /\ UNCHANGED <<clock, irq_enabled, interrupts, counter, deadlines,
                 min_flush_time, now, taskLocals, accepted, flushed, hist,
                 disabled_at,
                 mainVars, rateVars>>

TaskStep ==
  \/ Setup
  \/ MinFlushTime
  \/ SleepUntil
  \/ GetNow
  \/ DisableInterrupts
  \/ RainCheck
  \/ RainFlush
  \/ RainReschedule
  \/ AnemometerCheck
  \/ AnemometerFlush
  \/ AnemometerReschedule
  \/ EnableInterrupts
  \/ RainReport
  \/ AnemometerReport

Next ==
  \/ Tick
  \/ \E gpio \in Pins : GpioCallback(gpio)
  \/ TaskStep
  \/ \E err \in Errs : SensorPublish(err)

Spec == Init /\ [][Next]_vars

\* --------------------------------------------- fair scheduling, failing sink
\* Fairness: the clock never stops, and the task, pinned to its core, keeps
\* being scheduled, so each takes its next step when it has one.  Edges are
\* not obliged to arrive.
\* The same program with a Reporting Sink whose every Publish fails.
NextSinkFails ==
  \/ Tick
  \/ \E gpio \in Pins : GpioCallback(gpio)
  \/ TaskStep
  \/ SensorPublish("ERR_FAIL")

SpecSinkFails ==
  /\ Init
  /\ [][NextSinkFails]_vars
  /\ WF_vars(Tick)
  /\ WF_vars(TaskStep)
  /\ WF_vars(SensorPublish("ERR_FAIL"))

\* ------------------------------------------------- a stand-alone counter
\* One RateLimitedCounter per pin with a debounce interval drawn from
\* 1..MaxUpdatePeriod, driven directly by Inc and Flush; the task never runs.
\* hist[p] records the edges delivered to counter p since its last drain:
\*   n    how many,            last  the timestamp of the latest,
\*   ge   the first was later than next_update and each later one came at
\*        least update_period after its predecessor,
\*   gt   the same with "more than update_period after".
InitCounter ==
  /\ clock = 0
  /\ irq_enabled = TRUE
  /\ interrupts = TRUE
  /\ \E d \in 1..MaxUpdatePeriod :
       counter = [p \in CounterPins |-> RateLimitedCounter(d)]
  /\ pc = "standalone"
  /\ next_rain_gauge_flush = 0
  /\ next_anemometer_flush = 0
  /\ min_flush_time = 0
  /\ now = 0
  /\ rain_gauge_flush = NullOpt
  /\ rain_gauge_end_time = NullOpt
  /\ anemometer_flush = NullOpt
  /\ anemometer_end_time = NullOpt
  /\ exch = NullOpt
  /\ pub = NoPub
  /\ last_err = "none"
  /\ accepted = [p \in CounterPins |-> 0]
  /\ flushed = [p \in CounterPins |-> 0]
  /\ hist = NoHist
  /\ published = <<>>
  /\ disabled_at = NullOpt
  /\ MainNotModelled
  /\ RateIdle

CounterInc(p) ==
  /\ pc = "standalone"
  /\ hist[p].n < MaxEdges
  /\ LET c == counter[p]
         h == hist[p]
         timestamp == clock
     IN /\ counter' = [counter EXCEPT ![p] = Inc(c, timestamp)]
        /\ hist' = [hist EXCEPT ![p] =
             [n |-> h.n + 1,
              last |-> timestamp,
              ge |-> h.ge /\ (IF h.n = 0 THEN timestamp > c.next_update
                                ELSE timestamp >= h.last + c.update_period),
              gt |-> h.gt /\ (IF h.n = 0 THEN timestamp > c.next_update
                                ELSE timestamp > h.last + c.update_period)]]
  /\ UNCHANGED <<clock, irq_enabled, interrupts, pc, deadlines, min_flush_time,
                 now, taskLocals, pub, last_err, accepted, flushed,
                 wakeHist,
                 mainVars, rateVars>>

CounterFlush(p) ==
  /\ pc = "standalone"
  /\ hist[p].n > 0
  /\ counter' = [counter EXCEPT ![p] = FlushStore(@)]
  /\ hist' = [hist EXCEPT ![p] = NoHist[p]]
  /\ UNCHANGED <<clock, irq_enabled, interrupts, pc, deadlines, min_flush_time,
                 now, taskLocals, pub, last_err, accepted, flushed,
                 wakeHist,
                 mainVars, rateVars>>

NextCounter ==
  \/ Tick
  \/ \E p \in CounterPins : CounterInc(p)
  \/ \E p \in CounterPins : CounterFlush(p)

SpecCounter == InitCounter /\ [][NextCounter]_vars

\* ------------------------------------------------------- LevelToDirection
\* The table of main.cc:63-80, in its order (entry i here is index i - 1 there).
adc_targets ==
  << [label |-> "NE",  target |-> 2901], [label |-> "E",   target |-> 936],
     [label |-> "SE",  target |-> 1616], [label |-> "S",   target |-> 2195],
     [label |-> "SW",  target |-> 3382], [label |-> "W",   target |-> 3984],
     [label |-> "NW",  target |-> 3893], [label |-> "N",   target |-> 3716],
     [label |-> "NNE", target |-> 2705], [label |-> "ENE", target |-> 855],
     [label |-> "ESE", target |-> 693],  [label |-> "SSE", target |-> 1204],
     [label |-> "SSW", target |-> 1972], [label |-> "WSW", target |-> 3305],
     [label |-> "WNW", target |-> 3792], [label |-> "NNW", target |-> 3548] >>

Abs(x) == IF x < 0 THEN -x ELSE x

\* Mutant: the loop keeps the last entry at the minimum distance (>=).
RECURSIVE ScanTargetsLastWins(_, _, _, _)
ScanTargetsLastWins(adc_reading, i, min_diff, min_index) ==
  IF i > Len(adc_targets) THEN min_index
  ELSE LET diff == Abs(adc_targets[i].target - adc_reading)
       IN IF min_diff >= diff
            THEN ScanTargetsLastWins(adc_reading, i + 1, diff, i)
            ELSE ScanTargetsLastWins(adc_reading, i + 1, min_diff, min_index)

LevelToDirectionLastWins(adc_reading) ==
  adc_targets[ScanTargetsLastWins(adc_reading, 1, IntMax, 0)].label

\* The for loop of main.cc:83-89 from index i on, with the running minimum.
RECURSIVE ScanTargets(_, _, _, _)
ScanTargets(adc_reading, i, min_diff, min_index) ==
  IF i > Len(adc_targets) THEN min_index
  ELSE LET diff == Abs(adc_targets[i].target - adc_reading)
       IN IF min_diff > diff
            THEN ScanTargets(adc_reading, i + 1, diff, i)
            ELSE ScanTargets(adc_reading, i + 1, min_diff, min_index)

LevelToDirection(adc_reading) ==
  adc_targets[ScanTargets(adc_reading, 1, IntMax, 0)].label

\* ------------------------------------------- main_task, wind_direction_task
\* main_task up to its call of wind_direction_task, that task's loop, and the
\* statements of main_task behind the call.  The wind_and_rain task is only
\* created here (pc goes from "not_created" to "setup"); its steps are Spec's.
InitMain ==
  /\ clock = 1
  /\ irq_enabled = FALSE
  /\ interrupts = TRUE
  /\ counter = [p \in CounterPins |->
                  IF p = kAnemometerPin
                    THEN RateLimitedCounter(kAnemometerUpdateUs)
                    ELSE RateLimitedCounter(kRainGaugeUpdateUs)]
  /\ pc = "not_created"
  /\ next_rain_gauge_flush = 0
  /\ next_anemometer_flush = 0
  /\ min_flush_time = 0
  /\ now = 0
  /\ rain_gauge_flush = NullOpt
  /\ rain_gauge_end_time = NullOpt
  /\ anemometer_flush = NullOpt
  /\ anemometer_end_time = NullOpt
  /\ exch = NullOpt
  /\ pub = NoPub
  /\ last_err = "none"
  /\ accepted = [p \in CounterPins |-> 0]
  /\ flushed = [p \in CounterPins |-> 0]
  /\ hist = NoHist
  /\ published = <<>>
  /\ disabled_at = NullOpt
  /\ main_pc = "mqtt_create"
  /\ level = 0
  /\ direction = ""
  /\ watchdog_ms = NullOpt
  /\ RateIdle

\* while (!mqtt): MqttClient::Create, retried after sleep_ms(5000) on failure.
MqttCreate(ok) ==
  /\ main_pc = "mqtt_create"
  /\ main_pc' = IF ok THEN "publish_available" ELSE "mqtt_create"
  /\ UNCHANGED <<schedulerVars, last_err, level, direction, watchdog_ms,
                 rateVars>>

PublishAvailable ==
  /\ main_pc = "publish_available"
  /\ main_pc' = "task_create"
  /\ UNCHANGED <<schedulerVars, last_err, level, direction, watchdog_ms,
                 rateVars>>

XTaskCreate ==
  /\ main_pc = "task_create"
  /\ pc' = "setup"
  /\ main_pc' = "wind_direction_task"
  /\ UNCHANGED <<clock, irq_enabled, interrupts, counter, deadlines,
                 min_flush_time, now, taskLocals, pub, last_err, accepted,
                 flushed, hist, wakeHist, level, direction, watchdog_ms,
                 rateVars>>

\* wind_direction_task up to its loop: ADC set-up and discovery message.
WindDirectionStart ==
  /\ main_pc = "wind_direction_task"
  /\ pc = "setup"
  /\ main_pc' = "adc_read"
  /\ UNCHANGED <<schedulerVars, last_err, level, direction, watchdog_ms,
                 rateVars>>

AdcRead ==
  /\ main_pc = "adc_read"
  /\ level' \in 0..AdcMax
  /\ main_pc' = "level_to_direction"
  /\ UNCHANGED <<schedulerVars, last_err, direction, watchdog_ms, rateVars>>

Classify ==
  /\ main_pc = "level_to_direction"
  /\ direction' = LevelToDirection(level)
  /\ main_pc' = "direction_publish"
  /\ UNCHANGED <<schedulerVars, last_err, level, watchdog_ms, rateVars>>

\* SensorPublish(mqtt, state_topic, direction)
DirectionPublish(err) ==
  /\ main_pc = "direction_publish"
  /\ last_err' = err
  /\ main_pc' = "sleep_ms"
  /\ UNCHANGED <<schedulerVars, level, direction, watchdog_ms, rateVars>>

\* sleep_ms, then the test of while (true): the loop is never left, and with
\* it neither is the call at main.cc:328; behind the call main_task enables
\* the watchdog.  level and direction are locals of the loop body and end
\* with the iteration.
WindDirectionLoop ==
  /\ main_pc = "sleep_ms"
  /\ level' = 0
  /\ direction' = ""
  /\ IF TRUE
       THEN /\ main_pc' = "adc_read"
            /\ watchdog_ms' = watchdog_ms
       ELSE /\ main_pc' = "watchdog_enabled"
            /\ watchdog_ms' = kWatchdogMs
  /\ UNCHANGED <<schedulerVars, last_err, rateVars>>

MainStep ==
  \/ \E ok \in BOOLEAN : MqttCreate(ok)
  \/ PublishAvailable
  \/ XTaskCreate
  \/ WindDirectionStart
  \/ AdcRead
  \/ Classify
  \/ \E err \in Errs : DirectionPublish(err)
  \/ WindDirectionLoop

\* Fairness: main_task keeps being scheduled, and MqttClient::Create does not
\* fail for ever.
SpecMain ==
  /\ InitMain
  /\ [][MainStep]_vars
  /\ WF_vars(MainStep)
  /\ SF_vars(MqttCreate(TRUE))

\* ------------------------------------------------------- rate computation
\* main.cc:266-290 in real microseconds.  A double is modelled by the real
\* number it approximates, kept as a fraction in lowest terms; the float
\* constants 1.73 and 0.011 likewise.  std::to_string(double) is "%f": six
\* decimals, rounded to nearest.
UsPerSec == 1000000

\* kRainGaugeFlushUs and kAnemometerFlushUs at their real values
\* (main.cc:34-35); the scheduler above runs on scaled-down periods.
kRainGaugeFlushRealUs == kRainReportPeriodSecs * UsPerSec

kAnemometerFlushRealUs == kWindReportPeriodSecs * UsPerSec

RECURSIVE GCD(_, _)
GCD(a, b) == IF b = 0 THEN a ELSE GCD(b, a % b)

\* n / d in lowest terms, d > 0.
Rat(n, d) ==
  LET g == GCD(Abs(n), Abs(d))
      sgn == IF d < 0 THEN -1 ELSE 1
  IN [num |-> sgn * (n \div g), den |-> sgn * (d \div g)]

\* a * b, cancelling across before multiplying.
RatMul(a, b) ==
  LET x == Rat(a.num, b.den)
      y == Rat(b.num, a.den)
  IN Rat(x.num * y.num, x.den * y.den)

\* a / b for b # 0.
RatDiv(a, b) == RatMul(a, Rat(b.den, b.num))

kAnemometerSpeedPerTick == Rat(173, 100)

kRainGaugeInchesPerTick == Rat(11, 1000)

\* r added to acc k times modulo d, counting the wrap-arounds in q: one decimal
\* digit of r / d for k = 10, acc = 0, without leaving 32 bits.
RECURSIVE AddMod(_, _, _, _, _)
AddMod(k, acc, q, r, d) ==
  IF k = 0 THEN [digit |-> q, rem |-> acc]
  ELSE IF acc + r >= d
         THEN AddMod(k - 1, acc + r - d, q + 1, r, d)
         ELSE AddMod(k - 1, acc + r, q, r, d)

\* The next k decimals of r / d appended to micro.
RECURSIVE Decimals(_, _, _, _)
Decimals(k, micro, r, d) ==
  IF k = 0 THEN [micro |-> micro, rem |-> r]
  ELSE LET s == AddMod(10, 0, 0, r, d)
       IN Decimals(k - 1, 10 * micro + s.digit, s.rem, d)

\* std::to_string of the non-negative finite double x.num / x.den.
to_string(x) ==
  LET six == Decimals(6, 0, x.num % x.den, x.den)
      up == \/ six.rem + six.rem > x.den
            \/ six.rem + six.rem = x.den /\ six.micro % 2 = 1
      micro == IF up THEN six.micro + 1 ELSE six.micro
  IN [kind |-> "num",
      int |-> (x.num \div x.den) + (micro \div UsPerSec),
      micro |-> micro % UsPerSec]

\* The texts std::to_string can give for rate_per_sec_num / elapsed_time_sec
\* * scale, elapsed_time_sec being elapsed_us / 1e6 with elapsed_us the uint64_t
\* sum (negative here = wrapped around to 2^64 + elapsed_us, at least 2^63
\* microseconds, under which every count up to MaxTicks rounds to 0.000000).
\* Division by 0.0 gives inf, 0.0 / 0.0 a NaN whose sign is the platform's.
RateTexts(amount, elapsed_us, scale) ==
  IF elapsed_us < 0 THEN {[kind |-> "num", int |-> 0, micro |-> 0]}
  ELSE IF elapsed_us = 0
    THEN IF amount.num = 0
           THEN {[kind |-> "nan", int |-> 0, micro |-> 0],
                 [kind |-> "-nan", int |-> 0, micro |-> 0]}
           ELSE {[kind |-> "inf", int |-> 0, micro |-> 0]}
    ELSE LET elapsed_time_sec == Rat(elapsed_us, UsPerSec)
         IN {to_string(RatMul(RatDiv(amount, elapsed_time_sec),
                             Rat(scale, 1)))}

\* Lateness of the wake (now - old deadline) in the rate runs: a microsecond,
\* 20 ms, a second, one wind period, five wind periods.
LateUs == {1, 20000, 1000000, 5000000, 25000000}

\* A wake in which both windows were drained: rate_ticks in each flush, both
\* old deadlines rate_late_us before now.  The windows started at time 0.
InitRate ==
  /\ clock = 1
  /\ irq_enabled = TRUE
  /\ interrupts = TRUE
  /\ counter = [p \in CounterPins |->
                  IF p = kAnemometerPin
                    THEN RateLimitedCounter(kAnemometerUpdateUs)
                    ELSE RateLimitedCounter(kRainGaugeUpdateUs)]
  /\ pc = "rain_report"
  /\ next_rain_gauge_flush = 0
  /\ next_anemometer_flush = 0
  /\ min_flush_time = 0
  /\ now = 0
  /\ rain_gauge_flush = NullOpt
  /\ rain_gauge_end_time = NullOpt
  /\ anemometer_flush = NullOpt
  /\ anemometer_end_time = NullOpt
  /\ exch = NullOpt
  /\ pub = NoPub
  /\ last_err = "none"
  /\ accepted = [p \in CounterPins |-> 0]
  /\ flushed = [p \in CounterPins |-> 0]
  /\ hist = NoHist
  /\ published = <<>>
  /\ disabled_at = NullOpt
  /\ MainNotModelled
  /\ rate_ticks \in 0..MaxTicks
  /\ rate_late_us \in LateUs
  /\ rain_inches_per_hour = NoRate
  /\ wind_mph = NoRate

\* if (rain_gauge_flush.has_value()) { ... } of main.cc:266-278
RainRate ==
  /\ pc = "rain_report"
  /\ LET end_time == kRainGaugeFlushRealUs
         now_ == end_time + rate_late_us
         rain_inches == RatMul(Rat(rate_ticks, 1), kRainGaugeInchesPerTick)
     IN rain_inches_per_hour' \in
          RateTexts(rain_inches,
                    ElapsedUs(kRainGaugeFlushRealUs, now_, end_time), 3600)
  /\ pc' = "anem_report"
  /\ UNCHANGED <<clock, irq_enabled, interrupts, counter, deadlines,
                 min_flush_time, now, taskLocals, pub, last_err, accepted,
                 flushed, hist, wakeHist, mainVars, rate_ticks, rate_late_us,
                 wind_mph>>

\* if (anemometer_flush) { ... } of main.cc:280-290
WindRate ==
  /\ pc = "anem_report"
  /\ LET end_time == kAnemometerFlushRealUs
         now_ == end_time + rate_late_us
         counted_wind_mph ==
           RatMul(Rat(rate_ticks, 1), kAnemometerSpeedPerTick)
     IN wind_mph' \in
          RateTexts(counted_wind_mph,
                    ElapsedUs(kAnemometerFlushRealUs, now_, end_time), 1)
  /\ pc' = "sleep"
  /\ UNCHANGED <<clock, irq_enabled, interrupts, counter, deadlines,
                 min_flush_time, now, taskLocals, pub, last_err, accepted,
                 flushed, hist, wakeHist, mainVars, rate_ticks, rate_late_us,
                 rain_inches_per_hour>>

NextRate == RainRate \/ WindRate

SpecRate == InitRate /\ [][NextRate]_vars

\* ================================================================ claims
CriticalPcs == {"rain_check", "rain_flush", "rain_resched", "anem_check",
                "anem_flush", "anem_resched", "enable"}

PublishPcs == {"rain_publish", "anem_publish"}

ReportPcs == {"rain_report", "rain_publish", "anem_report", "anem_publish"}

\* C1: for each counter, under every interleaving of interrupt callbacks with
\* the task's steps, the edges accepted by Inc so far equal the sum of the
\* values Flush has returned so far plus the counter's current count.
C1_NoEdgeLostOrDoubled ==
  \A p \in CounterPins : accepted[p] = flushed[p] + counter[p].count

\* Both counters have been drained of at least one tick and have counted again.
C1_Witness ==
  \A p \in CounterPins : flushed[p] >= 1 /\ counter[p].count >= 1

\* C2 (as claimed): the elapsed time handed to the rate of a drained window is
\* nominal_period + (now - old_deadline).
C2_ElapsedAddsOvershoot ==
  /\ pc = "rain_publish" =>
       pub.elapsed_us = kRainGaugeFlushUs + (now - rain_gauge_end_time)
  /\ pc = "anem_publish" =>
       pub.elapsed_us = kAnemometerFlushUs + (now - anemometer_end_time)

\* C3 (as claimed): at the end of a wake's interrupt-disabled section every
\* window whose deadline was <= now has been drained and rescheduled, so no
\* undrained window is left with a deadline <= now, and interrupts are still
\* disabled when the second window has been handled.
C3_DueWindowsDrained ==
  pc = "enable" =>
    /\ ~interrupts
    /\ rain_gauge_flush = NullOpt => next_rain_gauge_flush > now
    /\ anemometer_flush = NullOpt => next_anemometer_flush > now

\* C4 (as claimed): every wake reaches the Report step with at least one
\* window drained.
C4_EveryWakeReports ==
  pc = "rain_report" =>
    (rain_gauge_flush # NullOpt \/ anemometer_flush # NullOpt)

\* C5 (as claimed, its "in particular" clause): once the critical section of a
\* wake has closed, both deadlines are strictly greater than the now recorded
\* for that wake.
C5_DeadlinesAheadOfNow ==
  pc \in ReportPcs =>
    (next_rain_gauge_flush > now /\ next_anemometer_flush > now)

\* C6 (as claimed): N edges, no drain between them, each at least the debounce
\* interval after its predecessor (exactly the interval included), leave
\* count = N.
C6_SpacedAtLeastCounted ==
  \A p \in CounterPins : hist[p].ge => counter[p].count = hist[p].n

\* C6 (amended): N edges, no drain between them, the first later than the
\* counter's next_update and each later one MORE than the debounce interval
\* after its predecessor, leave count = N.
C6_SpacedMoreThanCounted ==
  \A p \in CounterPins : hist[p].gt => counter[p].count = hist[p].n

\* Three edges, each more than a debounce interval of at least 2 apart.
C6_Witness ==
  \E p \in CounterPins :
    hist[p].gt /\ hist[p].n = 3 /\ counter[p].update_period >= 2

\* C7: an edge whose timestamp is <= next_update leaves the counter's count and
\* next_update unchanged.
C7_RejectedEdgeChangesNothing ==
  [][\A p \in CounterPins :
       (hist'[p].n = hist[p].n + 1 /\ clock <= counter[p].next_update)
         => (/\ counter'[p].count = counter[p].count
             /\ counter'[p].next_update = counter[p].next_update)]_vars

\* An edge delivered exactly at next_update has been rejected.
C7_Witness ==
  \E p \in CounterPins :
    /\ hist[p].n = 2
    /\ counter[p].count = 1
    /\ hist[p].last = counter[p].next_update

\* C8: Flush runs only with interrupts disabled (from the read of count to the
\* end of the section), and the interrupt callback changes a counter only
\* while interrupts are enabled and no exchange of count is in progress.
C8_MutualExclusion ==
  /\ [](pc \in CriticalPcs => ~interrupts)
  /\ [](exch # NullOpt => ~interrupts)
  /\ [][\A p \in CounterPins :
          counter'[p].count > counter[p].count
            => (interrupts /\ exch = NullOpt /\ pc \notin CriticalPcs)]_vars

\* The anemometer's exchange is half done (a positive count read, not yet
\* stored) inside the section in which the rain gauge was drained as well.
C8_Witness ==
  /\ pc = "anem_flush"
  /\ exch >= 1
  /\ rain_gauge_flush # NullOpt
  /\ ~interrupts

\* C9: whenever a SensorPublish call is in progress, interrupts are enabled.
C9_PublishWithInterruptsEnabled ==
  pc \in PublishPcs => interrupts

\* A wind report with ticks is being published.
C9_Witness ==
  pc = "anem_publish" /\ pub.ticks >= 1 /\ interrupts

\* C10: with a sink whose every Publish fails and a fair clock, each window's
\* deadline is advanced again and again, for as long as the clock can still
\* pass it (in the end both lie at or beyond the horizon), every drained
\* window is handed to SensorPublish and the loop goes on to its next cycle;
\* the failed call changes neither the counters nor the deadlines and is not
\* retried.
C10_SinkFailureNoStall ==
  /\ <>[](next_rain_gauge_flush >= MaxClock /\ next_anemometer_flush >= MaxClock)
  /\ (pc = "rain_report" /\ rain_gauge_flush # NullOpt) ~> (pc = "rain_publish")
  /\ (pc = "anem_report" /\ anemometer_flush # NullOpt) ~> (pc = "anem_publish")
  /\ (pc \in PublishPcs) ~> (pc = "min_flush")
  /\ [][(pc \in PublishPcs /\ pc' # pc)
          => /\ last_err' = "ERR_FAIL"
             /\ counter' = counter
             /\ deadlines' = deadlines
             /\ pc' = (IF pc = "rain_publish" THEN "anem_report"
                                               ELSE "min_flush")]_vars

\* After failed publishes the wind window has been drained at least twice and
\* the rain window's report is being attempted.
C10_Witness ==
  /\ last_err = "ERR_FAIL"
  /\ pc = "rain_publish"
  /\ next_anemometer_flush >= 1 + 2 * (kAnemometerFlushUs + 1) + kAnemometerFlushUs

\* C11: whenever a window has fired in a wake, its new deadline is exactly the
\* now recorded at that wake plus its nominal period, whatever the overshoot.
C11_DeadlineIsNowPlusPeriod ==
  /\ rain_gauge_end_time # NullOpt =>
       next_rain_gauge_flush = now + kRainGaugeFlushUs
  /\ anemometer_end_time # NullOpt =>
       next_anemometer_flush = now + kAnemometerFlushUs

\* Both windows fired in one wake, each at least two units late.
C11_Witness ==
  /\ rain_gauge_end_time # NullOpt
  /\ anemometer_end_time # NullOpt
  /\ now >= rain_gauge_end_time + 2
  /\ now >= anemometer_end_time + 2

\* C12: a callback for the anemometer pin changes at most the anemometer
\* counter, one for the rain-gauge pin at most the rain-gauge counter, one for
\* any other pin neither; no callback changes a scheduler deadline.
C12_DispatchByPin ==
  [][\A gpio \in Pins :
       GpioCallback(gpio) =>
         /\ \A p \in CounterPins \ {gpio} : counter'[p] = counter[p]
         /\ next_rain_gauge_flush' = next_rain_gauge_flush
         /\ next_anemometer_flush' = next_anemometer_flush]_vars

\* Anemometer edges have been counted while the rain gauge never changed.
C12_Witness ==
  /\ accepted[kAnemometerPin] >= 2
  /\ accepted[kRainGaugePin] = 0
  /\ counter[kRainGaugePin] = RateLimitedCounter(kRainGaugeUpdateUs)

\* A window that the current wake does not drain: its deadline is not before
\* the recorded now (absolute_time_diff_us(now, deadline) < 0 is false).
RainNotDue ==
  rain_gauge_flush = NullOpt /\ next_rain_gauge_flush >= now

AnemometerNotDue ==
  anemometer_flush = NullOpt /\ next_anemometer_flush >= now

\* C15: throughout a wake's critical section, a window whose deadline has not
\* elapsed keeps its counter (count and next_update) and its deadline, whether
\* or not the other window is drained.
C15_UndueWindowUntouched ==
  [][(pc \in CriticalPcs) =>
       ( /\ (RainNotDue =>
               ( /\ counter'[kRainGaugePin] = counter[kRainGaugePin]
                 /\ next_rain_gauge_flush' = next_rain_gauge_flush ))
         /\ (AnemometerNotDue =>
               ( /\ counter'[kAnemometerPin] = counter[kAnemometerPin]
                 /\ next_anemometer_flush' = next_anemometer_flush )) )]_vars

\* The section ends with the wind window drained of ticks and the rain window,
\* not due, still holding its count.
C15_Witness ==
  /\ pc = "enable"
  /\ RainNotDue
  /\ anemometer_flush >= 1
  /\ counter[kRainGaugePin].count >= 1

\* C18 (as claimed): the elapsed time of every report is strictly positive, at
\* least the nominal period, and not a wrapped-around sum.
C18_ElapsedAtLeastPeriod ==
  /\ pc = "rain_publish" =>
       (pub.elapsed_us > 0 /\ pub.elapsed_us >= kRainGaugeFlushUs)
  /\ pc = "anem_publish" =>
       (pub.elapsed_us > 0 /\ pub.elapsed_us >= kAnemometerFlushUs)

\* C20: a drain sets count to 0 and leaves next_update (and the debounce
\* interval) as they were, so the first edge after it that is not later than
\* next_update is rejected.
C20_FlushKeepsDebounceWindow ==
  /\ [][\A p \in CounterPins :
          (hist[p].n > 0 /\ hist'[p].n = 0)
            => /\ counter'[p].count = 0
               /\ counter'[p].next_update = counter[p].next_update
               /\ counter'[p].update_period = counter[p].update_period]_vars
  /\ [](\A p \in CounterPins :
          (hist[p].n = 1 /\ ~hist[p].gt) => counter[p].count = 0)

\* After a drain, one edge inside the persisting debounce window was rejected.
C20_Witness ==
  \E p \in CounterPins :
    /\ hist[p].n = 1
    /\ ~hist[p].gt
    /\ counter[p].count = 0
    /\ counter[p].next_update > hist[p].last
    /\ hist[p].last > 0

\* The timestamp of the edge a counter accepted last.
LastAccepted(c) == c.next_update - c.update_period

RainPart == IF rain_gauge_flush # NullOpt THEN <<"rain_topic">> ELSE <<>>

WindPart == IF anemometer_flush # NullOpt THEN <<"wind_topic">> ELSE <<>>

\* C16: the publishes of a wake are exactly one to the rain topic if the rain
\* window was drained in it, followed by exactly one to the wind topic if the
\* wind window was drained in it, and nothing else.
C16_OnePublishPerDrainedWindow ==
  /\ pc \in CriticalPcs \cup {"disable", "rain_report", "rain_publish"}
       => published = <<>>
  /\ pc \in {"anem_report", "anem_publish"} => published = RainPart
  /\ pc \in {"min_flush", "sleep_until", "get_now"}
       => published = RainPart \o WindPart

\* A wake that drained both windows has published rain, then wind.
C16_Witness ==
  /\ pc = "min_flush"
  /\ published = <<"rain_topic", "wind_topic">>
  /\ rain_gauge_flush # NullOpt
  /\ anemometer_flush # NullOpt

\* C19 (as claimed): inside the section, every drained tick was accepted at a
\* timestamp not later than the now recorded for the wake.
C19_DrainedTicksNotAfterNow ==
  pc \in CriticalPcs =>
    /\ rain_gauge_flush >= 1 => LastAccepted(counter[kRainGaugePin]) <= now
    /\ anemometer_flush >= 1 => LastAccepted(counter[kAnemometerPin]) <= now

\* C19 (amended): inside the section, every drained tick was accepted at a
\* timestamp not later than the instant interrupts were disabled.
C19_DrainedTicksNotAfterDisable ==
  pc \in CriticalPcs =>
    /\ rain_gauge_flush >= 1 =>
         LastAccepted(counter[kRainGaugePin]) <= disabled_at
    /\ anemometer_flush >= 1 =>
         LastAccepted(counter[kAnemometerPin]) <= disabled_at

\* A drained wind tick was accepted after now was recorded.
C19_Witness ==
  /\ pc = "enable"
  /\ anemometer_flush >= 1
  /\ LastAccepted(counter[kAnemometerPin]) > now
  /\ LastAccepted(counter[kAnemometerPin]) <= disabled_at

\* The entry the claim names: the lowest-indexed one among those at the
\* minimum absolute difference from the reading.
Distance(i, reading) == Abs(adc_targets[i].target - reading)

NearestEntries(reading) ==
  {i \in DOMAIN adc_targets :
     \A j \in DOMAIN adc_targets : Distance(i, reading) <= Distance(j, reading)}

LowestNearest(reading) ==
  CHOOSE i \in NearestEntries(reading) :
    \A j \in NearestEntries(reading) : i <= j

\* C13: for every reading in 0..4095 LevelToDirection returns the label of the
\* lowest-indexed table entry at the minimum absolute difference; a reading
\* equal to a target returns that target's label.
C13_NearestEarliestLabel ==
  main_pc = "direction_publish" =>
    /\ direction = adc_targets[LowestNearest(level)].label
    /\ \A i \in DOMAIN adc_targets :
         level = adc_targets[i].target => direction = adc_targets[i].label

\* A reading equidistant between two targets got the earlier-indexed label.
C13_Witness ==
  /\ main_pc = "direction_publish"
  /\ \E i, j \in NearestEntries(level) :
       i < j /\ direction = adc_targets[i].label

\* C17 (as claimed): once main_task has started the sensor tasks it eventually
\* enables the watchdog with (1 + 3 * min(wind, rain period)) seconds.
C17_WatchdogEventuallyArmed ==
  (main_pc = "wind_direction_task") ~> (watchdog_ms = kWatchdogMs)

\* The time the drained ticks were collected over: from the start of the
\* window (0) to now, i.e. nominal period + lateness.
RainElapsedUs == kRainGaugeFlushRealUs + rate_late_us

WindElapsedUs == kAnemometerFlushRealUs + rate_late_us

\* C14 (as claimed): the published wind value is ticks * 1.73 /
\* elapsed_seconds and the published rain value is ticks * 0.011 /
\* elapsed_seconds * 3600, written as decimal text.
C14_RateOverElapsedSeconds ==
  /\ wind_mph # NoRate =>
       wind_mph = to_string(Rat(rate_ticks * 173 * 10000, WindElapsedUs))
  /\ rain_inches_per_hour # NoRate =>
       rain_inches_per_hour =
         to_string(Rat(rate_ticks * 11 * 3600 * 1000, RainElapsedUs))

====
